---- MODULE Spec2Model ----
(***************************************************************************)
(* A model of syntheticdata.py: the subsampling algorithms applied to a    *)
(* list of coordinate pairs, the per-level aggregation of process_data     *)
(* into one collection of geometries per method, and the profiled writes   *)
(* of those collections into the layers of one GeoPackage.                 *)
(*                                                                         *)
(* Coordinates are integers.  A Python list is a sequence; Python's        *)
(* 0-based position i is position i + 1 here.  A call that raises is a     *)
(* result whose status names the exception.                                *)
(***************************************************************************)
EXTENDS Integers, Sequences, FiniteSets, TLC

VARIABLES
    coords,             \* the list of [easting, northing] pairs in hand
    before,             \* the caller's copy of the list taken before a call
    level,              \* the level handed to the algorithms
    alg,                \* the algorithm that was called ("none" before a call)
    out,                \* what the call produced: [status, value]
    csv_filepaths,      \* the input files, each the trajectory it holds
    subsample_levels,   \* the caller-supplied levels
    pc,                 \* where add_synthetic_data_to_gpkg / process_data is
    fileIdx,            \* position in csv_filepaths
    levelIdx,           \* position in subsample_levels
    methodIdx,          \* position in gdfs.items()
    gdfs,               \* method -> the geometries collected for it
    outputs,            \* per level processed: method -> the algorithm's output
    results,            \* process_data's local profiling_results
    profiling_results,  \* add_synthetic_data_to_gpkg's profiling_results
    gpkg,               \* the destination: layer name -> layer
    exc                 \* the exception that left the run ("none" if none)

algVars == <<coords, before, level, alg, out>>
pipeVars == <<csv_filepaths, subsample_levels, pc, fileIdx, levelIdx, methodIdx,
              gdfs, outputs, results, profiling_results, gpkg, exc>>
vars == <<coords, before, level, alg, out, csv_filepaths, subsample_levels, pc,
          fileIdx, levelIdx, methodIdx, gdfs, outputs, results,
          profiling_results, gpkg, exc>>

(***************************************************************************)
(* Bounds of the model.                                                    *)
(***************************************************************************)
MaxLen == 3        \* longest input list handed to one algorithm
MaxEasting == 2    \* eastings of those lists range over 0..MaxEasting
MaxNorthing == 1   \* northings of those lists range over 0..MaxNorthing
MaxLevel == 3      \* largest level handed to one algorithm
MaxNeg == 1        \* levels go down to -MaxNeg

Points == {<<x, y>> : x \in 0..MaxEasting, y \in 0..MaxNorthing}
Lists == UNION {[1..n -> Points] : n \in 0..MaxLen}
Levels == (0 - MaxNeg)..MaxLevel

(***************************************************************************)
(* Python helpers.                                                         *)
(***************************************************************************)
Min(a, b) == IF a <= b THEN a ELSE b
Max(a, b) == IF a >= b THEN a ELSE b
Abs(a) == IF a >= 0 THEN a ELSE 0 - a

\* lst[i:j] for 0 <= i, 0 <= j (0-based, j exclusive, clipped to the list)
Slice(lst, i, j) == SubSeq(lst, i + 1, Min(j, Len(lst)))

\* range(start, stop, step) for step > 0, as the sequence of its values
RECURSIVE Range(_, _, _)
Range(start, stop, step) ==
    IF start >= stop THEN <<>>
    ELSE <<start>> \o Range(start + step, stop, step)

Ok(v, arg) == [status |-> "ok", value |-> v, arg |-> arg]
Raise(e, arg) == [status |-> e, value |-> <<>>, arg |-> arg]

(***************************************************************************)
(* uniform_subsampling: coords[::step].  A zero step raises ValueError, a  *)
(* negative step walks from the last element backwards.                    *)
(***************************************************************************)
RECURSIVE DownFrom(_, _, _)
DownFrom(lst, i, step) ==
    IF i < 0 THEN <<>>
    ELSE <<lst[i + 1]>> \o DownFrom(lst, i - step, step)

\* a variant that also keeps the last element
ExtendedSlice_WithLastPoint(lst, step) ==
    LET idx == Range(0, Len(lst), Abs(step))
        strided == [k \in 1..Len(idx) |-> lst[idx[k] + 1]]
    IN  IF lst # <<>> /\ idx[Len(idx)] # Len(lst) - 1
        THEN Append(strided, lst[Len(lst)])
        ELSE strided

ExtendedSlice(lst, step) ==
    IF step > 0
    THEN LET idx == Range(0, Len(lst), step)
         IN  [k \in 1..Len(idx) |-> lst[idx[k] + 1]]
    ELSE DownFrom(lst, Len(lst) - 1, 0 - step)

\* a variant that decimates the list in place (del coords[...]) and returns it
uniform_subsampling_InPlace(cs, step) ==
    IF step = 0 THEN Raise("ValueError", cs)
    ELSE Ok(ExtendedSlice(cs, step), ExtendedSlice(cs, step))

uniform_subsampling(cs, step) ==
    IF step = 0 THEN Raise("ValueError", cs)
    ELSE Ok(ExtendedSlice(cs, step), cs)

(***************************************************************************)
(* random_subsampling: random.sample(coords, min(n_out, len(coords))).     *)
(* random.sample draws k distinct positions in a random order, so every    *)
(* arrangement of k positions is a possible outcome; a negative k raises   *)
(* ValueError.  The operator is the set of possible results.               *)
(***************************************************************************)
Arrangements(n, k) ==
    {f \in [1..k -> 1..n] : \A i, j \in 1..k : i # j => f[i] # f[j]}

random_sample(population, k) ==
    IF k < 0 \/ k > Len(population) THEN {Raise("ValueError", population)}
    ELSE {Ok([i \in 1..k |-> population[f[i]]], population) :
             f \in Arrangements(Len(population), k)}

random_subsampling(cs, n_out) == random_sample(cs, Min(n_out, Len(cs)))

(***************************************************************************)
(* sliding_window_subsampling: the middle point of each window.            *)
(* range(0, len, 0) raises ValueError; a negative step gives an empty      *)
(* range, so nothing is appended.                                          *)
(***************************************************************************)
\* a variant that takes the lower middle of a window of even length
WindowMiddle_Lower(window) == window[((Len(window) - 1) \div 2) + 1]

WindowMiddle(window) == window[(Len(window) \div 2) + 1]

\* the loop over range(0, len(coords), window_size), given as `starts`
RECURSIVE sliding_window_loop(_, _, _, _)
sliding_window_loop(cs, window_size, starts, subsampled_coords) ==
    IF starts = <<>> THEN subsampled_coords
    ELSE LET window == Slice(cs, Head(starts), Head(starts) + window_size)
         IN  sliding_window_loop(cs, window_size, Tail(starts),
                 IF window # <<>>
                 THEN Append(subsampled_coords, WindowMiddle(window))
                 ELSE subsampled_coords)

sliding_window_subsampling(cs, window_size) ==
    IF window_size = 0 THEN Raise("ValueError", cs)
    ELSE IF window_size < 0 THEN Ok(<<>>, cs)
    ELSE Ok(sliding_window_loop(cs, window_size,
                                Range(0, Len(cs), window_size), <<>>), cs)

(***************************************************************************)
(* grid_subsampling: one point per grid cell, the first seen.              *)
(* round() of a float rounds half to even; x / 0 raises ZeroDivisionError. *)
(* grid_dict is a Python dict: it keeps its keys in insertion order.       *)
(***************************************************************************)
\* round(num / den) for den > 0
RoundHalfEven(num, den) ==
    LET q == num \div den
        r == num % den
    IN  IF 2 * r < den THEN q
        ELSE IF 2 * r > den THEN q + 1
        ELSE IF q % 2 = 0 THEN q ELSE q + 1

\* round(a / g) for g # 0
RoundDiv(a, g) ==
    IF g > 0 THEN RoundHalfEven(a, g) ELSE RoundHalfEven(0 - a, 0 - g)

grid_key(coord, grid_size) ==
    <<RoundDiv(coord[1], grid_size) * grid_size,
      RoundDiv(coord[2], grid_size) * grid_size>>

\* a variant in which a later point of a cell replaces the one stored
grid_dict_step_LastSeen(items, coord, grid_size) ==
    LET key == grid_key(coord, grid_size)
    IN  IF \E k \in 1..Len(items) : items[k].key = key
        THEN [k \in 1..Len(items) |->
                 IF items[k].key = key THEN [key |-> key, value |-> coord]
                 ELSE items[k]]
        ELSE Append(items, [key |-> key, value |-> coord])

\* one pass of the loop body: grid_dict as the sequence of its (key, value) items
grid_dict_step(items, coord, grid_size) ==
    LET key == grid_key(coord, grid_size)
    IN  IF \E k \in 1..Len(items) : items[k].key = key
        THEN items
        ELSE Append(items, [key |-> key, value |-> coord])

\* the loop over coords[lo..hi] starting from items, run as its first half
\* followed by its second half
RECURSIVE grid_dict(_, _, _, _, _)
grid_dict(cs, grid_size, lo, hi, items) ==
    IF lo > hi THEN items
    ELSE IF lo = hi THEN grid_dict_step(items, cs[lo], grid_size)
    ELSE LET mid == (lo + hi) \div 2
             first == grid_dict(cs, grid_size, lo, mid, items)
         IN  IF Len(first) >= 0    \* the first half is run before the second
             THEN grid_dict(cs, grid_size, mid + 1, hi, first)
             ELSE items

grid_subsampling(cs, grid_size) ==
    IF grid_size = 0 /\ cs # <<>> THEN Raise("ZeroDivisionError", cs)
    ELSE LET items == grid_dict(cs, grid_size, 1, Len(cs), <<>>)
         IN  Ok([k \in 1..Len(items) |-> items[k].value], cs)

(***************************************************************************)
(* The library algorithms process_data calls.  Their code is not part of   *)
(* this repository; they are modelled from their documented rules.         *)
(***************************************************************************)
Cross(a, b, p) == (b[1] - a[1]) * (a[2] - p[2]) - (b[2] - a[2]) * (a[1] - p[1])
Norm2(a, b) == (b[1] - a[1]) * (b[1] - a[1]) + (b[2] - a[2]) * (b[2] - a[2])

\* a measure that orders the points by their distance to the chord a-b
ChordDev(p, a, b) ==
    IF a = b THEN Norm2(a, p) ELSE Cross(a, b, p) * Cross(a, b, p)

\* distance of p to the chord a-b exceeds epsilon (epsilon >= 0)
DevExceeds(p, a, b, epsilon) ==
    IF a = b THEN Norm2(a, p) > epsilon * epsilon
    ELSE Cross(a, b, p) * Cross(a, b, p) > epsilon * epsilon * Norm2(a, b)

\* Ramer-Douglas-Peucker: the positions kept between s and l, both kept
RECURSIVE rdp_keep(_, _, _, _)
rdp_keep(pts, s, l, epsilon) ==
    IF l - s < 2 THEN {s, l}
    ELSE LET far == {i \in (s + 1)..(l - 1) :
                        /\ ChordDev(pts[i], pts[s], pts[l]) > 0
                        /\ \A j \in (s + 1)..(l - 1) :
                              ChordDev(pts[j], pts[s], pts[l])
                                  <= ChordDev(pts[i], pts[s], pts[l])}
         IN  IF far = {} THEN {s, l}
             ELSE LET index == CHOOSE i \in far : \A j \in far : i <= j
                  IN  IF DevExceeds(pts[index], pts[s], pts[l], epsilon)
                      THEN rdp_keep(pts, s, index, epsilon)
                               \cup rdp_keep(pts, index, l, epsilon)
                      ELSE {s, l}

\* M[mask]: the points of pts at the positions in S, in their order in pts
AtPositions(pts, S) ==
    [k \in 1..Cardinality(S) |->
        pts[CHOOSE i \in S : Cardinality({j \in S : j <= i}) = k]]

rdp(pts, epsilon) ==
    IF pts = <<>> THEN <<>>
    ELSE AtPositions(pts, rdp_keep(pts, 1, Len(pts), epsilon))

\* Visvalingam-Whyatt: drop the interior point of smallest triangle area
\* until that area exceeds the tolerance
RECURSIVE simplify_coords_vw(_, _)
simplify_coords_vw(pts, tolerance) ==
    IF Len(pts) < 3 THEN pts
    ELSE LET area2(i) == Abs(Cross(pts[i - 1], pts[i + 1], pts[i]))
             m == CHOOSE i \in 2..(Len(pts) - 1) :
                     \A j \in 2..(Len(pts) - 1) :
                         area2(i) < area2(j) \/ (area2(i) = area2(j) /\ i <= j)
         IN  IF area2(m) <= 2 * tolerance
             THEN simplify_coords_vw(SubSeq(pts, 1, m - 1)
                                     \o SubSeq(pts, m + 1, Len(pts)), tolerance)
             ELSE pts

visvalingam_whyatt_subsampling(cs, tolerance) == simplify_coords_vw(cs, tolerance)

\* LowessSmoother: the smoothed value at position i stands for itself
LowessSmooth(frac_milli, y, i) == [lowess |-> frac_milli, y |-> y, at |-> i]

lowess_subsampling(cs, frac_milli) ==
    LET x == [i \in 1..Len(cs) |-> cs[i][1]]
        y == [i \in 1..Len(cs) |-> cs[i][2]]
    IN  [i \in 1..Len(cs) |-> <<x[i], LowessSmooth(frac_milli, y, i)>>]

\* min(max(level / 1000.0, 0.01), 0.99), in thousandths
smooth_frac(lvl) == Min(Max(lvl, 10), 990)

(***************************************************************************)
(* One call of one algorithm on a list (coords) with a level.              *)
(***************************************************************************)
\* add_synthetic_data_to_gpkg is not running
Idle ==
    /\ csv_filepaths = <<>>
    /\ subsample_levels = <<>>
    /\ pc = "idle"
    /\ fileIdx = 0
    /\ levelIdx = 0
    /\ methodIdx = 0
    /\ gdfs = <<>>
    /\ outputs = <<>>
    /\ results = <<>>
    /\ profiling_results = <<>>
    /\ gpkg = <<>>
    /\ exc = "none"

InitAlg ==
    /\ coords \in Lists
    /\ before = coords
    /\ level \in Levels
    /\ alg = "none"
    /\ out = [status |-> "none", value |-> <<>>]
    /\ Idle

\* the call returns or raises r, and leaves the argument list as r.arg
Returns(name, r) ==
    /\ alg' = name
    /\ out' = [status |-> r.status, value |-> r.value]
    /\ coords' = r.arg
    /\ UNCHANGED <<before, level, pipeVars>>

CallUniform ==
    /\ alg = "none"
    /\ Returns("uniform", uniform_subsampling(coords, level))

CallRandom ==
    /\ alg = "none"
    /\ \E r \in random_subsampling(coords, level) : Returns("random", r)

CallSlidingWindow ==
    /\ alg = "none"
    /\ Returns("sliding_window", sliding_window_subsampling(coords, level))

CallGrid ==
    /\ alg = "none"
    /\ Returns("grid", grid_subsampling(coords, level))

\* rdp(coords, epsilon=level), for a tolerance that is not negative
CallRdp ==
    /\ alg = "none"
    /\ level >= 0
    /\ Returns("rdp", Ok(rdp(coords, level), coords))

NextAlg == CallUniform \/ CallRandom \/ CallSlidingWindow \/ CallGrid

SpecAlg == InitAlg /\ [][NextAlg]_vars

(***************************************************************************)
(* The end-to-end case: a 100-point trajectory of evenly spaced eastings   *)
(* (create_flight_paths' linspace) and a noiseless wave, at level 10.      *)
(***************************************************************************)
MaxSpacing == 3    \* half the distance between consecutive eastings
MaxAmplitude == 3  \* the wave's amplitude
MaxPeriod == 4     \* the wave's half period, in points

\* a triangle wave through 0, amplitude * half_period at its peaks
Wave(i, amplitude, half_period) ==
    LET ph == i % (2 * half_period)
    IN  amplitude * (IF ph <= half_period THEN ph ELSE 2 * half_period - ph)

\* create_flight_paths, one path: eastings evenly spaced and symmetric about
\* 0 (np.linspace(-R, R, num_points)), northings a wave of the position
create_flight_path(num_points, spacing, amplitude, half_period) ==
    [i \in 1..num_points |->
        <<spacing * (2 * (i - 1) - (num_points - 1)),
          Wave(i - 1, amplitude, half_period)>>]

InitE2E ==
    /\ \E spacing \in 1..MaxSpacing, amplitude \in 0..MaxAmplitude,
          half_period \in 1..MaxPeriod :
            coords = create_flight_path(100, spacing, amplitude, half_period)
    /\ before = coords
    /\ level = 10
    /\ alg = "none"
    /\ out = [status |-> "none", value |-> <<>>]
    /\ Idle

NextE2E == CallRdp \/ CallUniform \/ CallSlidingWindow \/ CallGrid

SpecE2E == InitE2E /\ [][NextE2E]_vars

(***************************************************************************)
(* add_synthetic_data_to_gpkg and process_data.                            *)
(***************************************************************************)
MaxPoints == 2     \* num_points: the paths have 1..MaxPoints points
MaxFiles == 2      \* num_paths: a run has 0..MaxFiles input files
MaxRunLevels == 1  \* longest list of subsample levels of a run over several files
MaxLevels == 2     \* longest list of subsample levels of a run over one file
MaxPipeLevel == 2  \* the levels of those lists range over 0..MaxPipeLevel

\* gdfs.items(): the methods in the order the dict was built
Methods == <<"rdp", "uniform", "random", "sliding_window", "grid", "lowess",
             "vw", "full">>
MethodSet == {Methods[k] : k \in 1..Len(Methods)}

\* create_flight_paths followed by save_csv_files: path i has its own noise
\* (here the amplitude i of an alternating northing), so no two files are equal
create_flight_paths(num_points, num_paths) ==
    [i \in 1..num_paths |-> create_flight_path(num_points, 1, i, 1)]

LineString(pts) == [type |-> "LineString", coordinates |-> pts]
MultiPoint(pts) == [type |-> "MultiPoint", coordinates |-> pts]

\* a variant that promotes an output of a single point to a line
add_line_SinglePoint(gdf, subsampled) ==
    IF Len(subsampled) > 0 THEN Append(gdf, LineString(subsampled)) ELSE gdf

\* if len(subsampled) > 1: gdfs[m] = pd.concat([gdfs[m], [LineString(subsampled)]])
add_line(gdf, subsampled) ==
    IF Len(subsampled) > 1 THEN Append(gdf, LineString(subsampled)) ELSE gdf

layer_name(method) == method \o "_synthetic_layer"

\* a variant that appends to a layer that exists (mode='a')
to_file_wrapper_Append(destination, gdf, layer) ==
    [n \in DOMAIN destination \cup {layer} |->
        IF n # layer THEN destination[n]
        ELSE IF layer \in DOMAIN destination
        THEN [crs |-> gdf.crs,
              geometry |-> destination[layer].geometry \o gdf.geometry]
        ELSE gdf]

\* gdf.to_file(filepath, layer=layer_name, driver="GPKG", if_exists='replace'):
\* the named layer is replaced, the other layers stay
to_file_wrapper(destination, gdf, layer) ==
    [n \in DOMAIN destination \cup {layer} |->
        IF n = layer THEN gdf ELSE destination[n]]

\* os.path.getsize: the size grows with the layers and the coordinates held
RECURSIVE SumLen(_)
SumLen(geoms) ==
    IF geoms = <<>> THEN 0
    ELSE 1 + Len(Head(geoms).coordinates) + SumLen(Tail(geoms))

RECURSIVE SumLayers(_, _)
SumLayers(destination, names) ==
    IF names = {} THEN 0
    ELSE LET n == CHOOSE x \in names : TRUE
         IN  1 + SumLen(destination[n].geometry)
               + SumLayers(destination, names \ {n})

getsize(destination) == SumLayers(destination, DOMAIN destination)

\* bytes / (1024 * 1024), kept as the fraction
file_size_mb(bytes) == [bytes |-> bytes, per_mb |-> 1024 * 1024]

\* a variant that reads the size of the destination before the write
profiled_write_SizeBeforeWrite(destination, method, gdf) ==
    LET frame == [crs |-> "EPSG:3031", geometry |-> gdf]
        written == to_file_wrapper(destination, frame, layer_name(method))
    IN  [gpkg |-> written,
         record |-> [method |-> method,
                     file_size_mb |-> file_size_mb(getsize(destination))]]

\* one pass of the write loop for a write that succeeds: the layer is
\* written, then the size of the destination is read, then the record is
\* built.  Peak memory and duration are measurements no rule here reads.
profiled_write(destination, method, gdf) ==
    LET frame == [crs |-> "EPSG:3031", geometry |-> gdf]
        written == to_file_wrapper(destination, frame, layer_name(method))
    IN  [gpkg |-> written,
         record |-> [method |-> method,
                     file_size_mb |-> file_size_mb(getsize(written))]]

\* add_synthetic_data_to_gpkg is entered with these files and levels
Entered(files, levels) ==
    /\ csv_filepaths = files
    /\ subsample_levels = levels
    /\ pc = "loop"
    /\ fileIdx = 1
    /\ levelIdx = 0
    /\ methodIdx = 0
    /\ gdfs = <<>>
    /\ outputs = <<>>
    /\ results = <<>>
    /\ profiling_results = <<>>
    /\ gpkg = <<>>
    /\ exc = "none"
    /\ coords = <<>>
    /\ before = <<>>
    /\ level = 0
    /\ alg = "none"
    /\ out = [status |-> "none", value |-> <<>>]

LevelLists(longest) == UNION {[1..n -> 0..MaxPipeLevel] : n \in 0..longest}

\* a run over any number of files
InitPipe ==
    \E num_points \in 1..MaxPoints, num_paths \in 0..MaxFiles,
       levels \in LevelLists(MaxRunLevels) :
        Entered(create_flight_paths(num_points, num_paths), levels)

\* a run over one file, with longer lists of levels
InitOneFile ==
    \E num_points \in 1..MaxPoints, levels \in LevelLists(MaxLevels) :
        Entered(create_flight_paths(num_points, 1), levels)

\* process_data is entered: the file is read, the collections are set up and
\* the full-resolution MultiPoint is added
ReadCsv ==
    /\ pc = "loop"
    /\ fileIdx <= Len(csv_filepaths)
    /\ coords' = csv_filepaths[fileIdx]
    /\ gdfs' = [m \in MethodSet |->
                   IF m = "full" THEN <<MultiPoint(coords')>> ELSE <<>>]
    /\ outputs' = <<>>
    /\ results' = <<>>
    /\ levelIdx' = 1
    /\ pc' = "levels"
    /\ UNCHANGED <<before, level, alg, out, csv_filepaths, subsample_levels,
                   fileIdx, methodIdx, profiling_results, gpkg, exc>>

\* the first of the calls, in call order, that raised ("ok" if none did)
FirstRaised(calls) ==
    IF \A k \in 1..Len(calls) : calls[k].status = "ok" THEN "ok"
    ELSE calls[CHOOSE k \in 1..Len(calls) :
                  /\ calls[k].status # "ok"
                  /\ \A j \in 1..(k - 1) : calls[j].status = "ok"].status

\* one pass of the loop over subsample_levels: the seven algorithms are
\* applied, then each output of more than one point is added as a LineString
ApplyLevel ==
    /\ pc = "levels"
    /\ levelIdx <= Len(subsample_levels)
    /\ level' = subsample_levels[levelIdx]
    /\ \E r \in random_subsampling(coords, level') :
          LET u == uniform_subsampling(coords, level')
              s == sliding_window_subsampling(coords, level')
              g == grid_subsampling(coords, level')
              raised == FirstRaised(<<u, r, s, g>>)
              subsampled ==
                  [rdp |-> rdp(coords, level'),
                   uniform |-> u.value,
                   random |-> r.value,
                   sliding_window |-> s.value,
                   grid |-> g.value,
                   lowess |-> lowess_subsampling(coords, smooth_frac(level')),
                   vw |-> visvalingam_whyatt_subsampling(coords, level')]
          IN  IF raised # "ok"
              THEN /\ exc' = raised
                   /\ pc' = "crashed"
                   /\ UNCHANGED <<gdfs, outputs, levelIdx>>
              ELSE /\ gdfs' = [m \in MethodSet |->
                                  IF m = "full" THEN gdfs[m]
                                  ELSE add_line(gdfs[m], subsampled[m])]
                   /\ outputs' = Append(outputs, subsampled)
                   /\ levelIdx' = levelIdx + 1
                   /\ UNCHANGED <<exc, pc>>
    /\ UNCHANGED <<coords, before, alg, out, csv_filepaths, subsample_levels,
                   fileIdx, methodIdx, results, profiling_results, gpkg>>

\* the loop over the levels is over: profiling_results = []
Aggregated ==
    /\ pc = "levels"
    /\ levelIdx > Len(subsample_levels)
    /\ results' = <<>>
    /\ methodIdx' = 1
    /\ pc' = "write"
    /\ UNCHANGED <<algVars, csv_filepaths, subsample_levels, fileIdx, levelIdx,
                   gdfs, outputs, profiling_results, gpkg, exc>>

\* one pass of the loop over gdfs.items(): the write either succeeds and its
\* record is appended, or raises, and nothing catches the exception
WriteLayer ==
    /\ pc = "write"
    /\ methodIdx <= Len(Methods)
    /\ \/ LET w == profiled_write(gpkg, Methods[methodIdx], gdfs[Methods[methodIdx]])
          IN  /\ gpkg' = w.gpkg
              /\ results' = Append(results, w.record)
              /\ methodIdx' = methodIdx + 1
              /\ UNCHANGED <<pc, exc>>
       \/ /\ exc' = "WriteError"
          /\ pc' = "crashed"
          /\ UNCHANGED <<gpkg, results, methodIdx>>
    /\ UNCHANGED <<algVars, csv_filepaths, subsample_levels, fileIdx, levelIdx,
                   gdfs, outputs, profiling_results>>

\* process_data returns its records and the caller extends its list
ReturnResults ==
    /\ pc = "write"
    /\ methodIdx > Len(Methods)
    /\ profiling_results' = profiling_results \o results
    /\ fileIdx' = fileIdx + 1
    /\ pc' = "loop"
    /\ UNCHANGED <<algVars, csv_filepaths, subsample_levels, levelIdx, methodIdx,
                   gdfs, outputs, results, gpkg, exc>>

\* add_synthetic_data_to_gpkg returns profiling_results
Return ==
    /\ pc = "loop"
    /\ fileIdx > Len(csv_filepaths)
    /\ pc' = "done"
    /\ UNCHANGED <<algVars, csv_filepaths, subsample_levels, fileIdx, levelIdx,
                   methodIdx, gdfs, outputs, results, profiling_results, gpkg, exc>>

Next == ReadCsv \/ ApplyLevel \/ Aggregated \/ WriteLayer \/ ReturnResults \/ Return

Spec == InitPipe /\ [][Next]_vars

SpecOneFile == InitOneFile /\ [][Next]_vars

(***************************************************************************)
(* Properties of one call.                                                 *)
(***************************************************************************)
Called(name) == alg = name /\ out.status # "none"

Distinct(lst) == \A i, j \in 1..Len(lst) : i # j => lst[i] # lst[j]

\* the position in lst of a point of lst (lst pairwise distinct)
IndexOf(lst, p) == CHOOSE i \in 1..Len(lst) : lst[i] = p

\* sub is lst with some of its elements left out, the others in order
RECURSIVE Embeds(_, _)
Embeds(sub, lst) ==
    IF sub = <<>> THEN TRUE
    ELSE IF lst = <<>> THEN FALSE
    ELSE IF Head(sub) = Head(lst) THEN Embeds(Tail(sub), Tail(lst))
    ELSE Embeds(sub, Tail(lst))

Ceil(n, w) == (n + w - 1) \div w

First(lst) == lst[1]
Last(lst) == lst[Len(lst)]

\* C1: for pairwise distinct points and a count K >= 1, the output of
\* random_subsampling lists the points in strictly increasing original index,
\* whatever the random choice.
C1_RandomIncreasingIndex ==
    (Called("random") /\ level >= 1 /\ Distinct(before)) =>
        /\ out.status = "ok"
        /\ \A i, j \in 1..Len(out.value) :
              i < j => IndexOf(before, out.value[i]) < IndexOf(before, out.value[j])

\* C3: a level <= 0 is rejected with a validation error: the call neither
\* returns a result nor raises an error of another kind.
C3_NonPositiveLevelRejected ==
    (alg # "none" /\ level <= 0) => out.status \in {"ValidationError", "ValueError"}

\* C6: for a window width W >= 1, sliding_window_subsampling returns
\* ceil(len(P) / W) points, the k-th (from 0) being P[k*W + (m div 2)] with
\* m = min(W, len(P) - k*W) the length of the k-th window.
C6_SlidingWindowMiddles ==
    (Called("sliding_window") /\ level >= 1) =>
        /\ out.status = "ok"
        /\ Len(out.value) = Ceil(Len(before), level)
        /\ \A k \in 0..(Len(out.value) - 1) :
              LET m == Min(level, Len(before) - k * level)
              IN  out.value[k + 1] = before[k * level + (m \div 2) + 1]

\* a call of sliding_window_subsampling whose last window is the shorter one
C6_Witness ==
    /\ Called("sliding_window")
    /\ level >= 2
    /\ Len(before) > level
    /\ Len(before) % level # 0
    /\ Len(out.value) = Ceil(Len(before), level)

\* k is a nearest multiple of g to a
NearestMultiple(k, a, g) == k % g = 0 /\ 2 * Abs(a - k) <= g

\* the positions of lst that no earlier position shares a cell key with
FirstSeen(lst, g) ==
    {i \in 1..Len(lst) :
        \A j \in 1..(i - 1) : grid_key(lst[j], g) # grid_key(lst[i], g)}

\* C7: for a cell size G > 0, grid_subsampling keeps P[i] iff no earlier P[j]
\* has the same cell key (each coordinate rounded to a nearest multiple of G):
\* one point per distinct key, the first seen, in input order.
C7_GridFirstSeen ==
    (Called("grid") /\ level > 0) =>
        /\ out.status = "ok"
        /\ \A i \in 1..Len(before) :
              /\ NearestMultiple(grid_key(before[i], level)[1], before[i][1], level)
              /\ NearestMultiple(grid_key(before[i], level)[2], before[i][2], level)
        /\ out.value = AtPositions(before, FirstSeen(before, level))
        /\ Len(out.value) =
               Cardinality({grid_key(before[i], level) : i \in 1..Len(before)})

\* a call of grid_subsampling that drops a later point of a cell already seen
\* and keeps a point after it
C7_Witness ==
    /\ Called("grid")
    /\ level > 0
    /\ \E i, j \in 1..Len(before) :
          /\ i < j
          /\ j \in FirstSeen(before, level)
          /\ \E h \in 1..(i - 1) :
                /\ grid_key(before[h], level) = grid_key(before[i], level)
                /\ before[h] # before[i]
    /\ Len(out.value) >= 2

\* C8: for a level >= 1, uniform, sliding-window and grid subsampling return a
\* subsequence of P (points of P in their original order, no more than P
\* has), uniform with step 1 returns P, a list of zero or one point comes
\* back unchanged, and the input list is the same after the call.
C8_SubsequenceInputUntouched ==
    (alg \in {"uniform", "sliding_window", "grid"} /\ level >= 1) =>
        /\ out.status = "ok"
        /\ Embeds(out.value, before)
        /\ Len(out.value) <= Len(before)
        /\ (alg = "uniform" /\ level = 1) => out.value = before
        /\ Len(before) <= 1 => out.value = before
        /\ coords = before

\* a call that drops points of a list of at least three
C8_Witness ==
    /\ alg \in {"uniform", "sliding_window", "grid"}
    /\ level >= 2
    /\ Len(before) >= 3
    /\ out.status = "ok"
    /\ Len(out.value) >= 2
    /\ Len(out.value) < Len(before)

(***************************************************************************)
(* Properties of the end-to-end case (SpecE2E).                            *)
(***************************************************************************)
EndToEnd == Len(before) = 100 /\ level = 10 /\ out.status # "none"

\* C2 as stated: on a 100-point trajectory at level 10, RDP, uniform,
\* sliding-window and grid each return a non-empty sequence whose first point
\* is P[0] and whose last point is P[99].
C2_EndpointsPreserved ==
    (EndToEnd /\ alg \in {"rdp", "uniform", "sliding_window", "grid"}) =>
        /\ out.status = "ok"
        /\ out.value # <<>>
        /\ First(out.value) = before[1]
        /\ Last(out.value) = before[100]

\* C2 as amended: each of the four returns a non-empty sequence; RDP's runs
\* from P[0] to P[99]; uniform's runs from P[0] to P[90]; sliding-window's
\* runs from P[5] to P[95]; grid's starts at P[0] and ends at the last point
\* that opened a new cell, which is P[99] when P[99]'s cell holds no earlier
\* point.
C2_EndpointsPerAlgorithm ==
    (EndToEnd /\ alg \in {"rdp", "uniform", "sliding_window", "grid"}) =>
        /\ out.status = "ok"
        /\ out.value # <<>>
        /\ alg = "rdp" =>
              First(out.value) = before[1] /\ Last(out.value) = before[100]
        /\ alg = "uniform" =>
              First(out.value) = before[1] /\ Last(out.value) = before[91]
        /\ alg = "sliding_window" =>
              First(out.value) = before[6] /\ Last(out.value) = before[96]
        /\ alg = "grid" =>
              /\ First(out.value) = before[1]
              /\ LET opened == FirstSeen(before, level)
                 IN  /\ \E m \in opened :
                           /\ \A i \in opened : i <= m
                           /\ Last(out.value) = before[m]
                     /\ 100 \in opened => Last(out.value) = before[100]

\* the uniform stride has run on a 100-point trajectory at level 10 and has
\* returned its ten points
C2_Witness ==
    /\ EndToEnd
    /\ alg = "uniform"
    /\ Distinct(before)
    /\ Len(out.value) = 10

(***************************************************************************)
(* Properties of a run of add_synthetic_data_to_gpkg (Spec, SpecOneFile).  *)
(***************************************************************************)
SevenAlgorithms ==
    <<"rdp", "uniform", "random", "sliding_window", "grid", "lowess", "vw">>
EightMethods == SevenAlgorithms \o <<"full">>

\* the line geometries of the outputs of more than one point, level by level
LinesOf(outs, m) ==
    LET kept == AtPositions(outs, {k \in 1..Len(outs) : Len(outs[k][m]) >= 2})
    IN  [j \in 1..Len(kept) |-> LineString(kept[j][m])]

\* C4 as stated: when the write of a layer throws, a record with a failure
\* marker is produced for that layer and the run goes on.
C4_WriteFailureRecorded ==
    exc = "WriteError" =>
        /\ pc # "crashed"
        /\ \E k \in 1..Len(results) :
              /\ results[k].method = Methods[methodIdx]
              /\ "failed" \in DOMAIN results[k]

\* C5: for one trajectory and any list of levels, once the levels are
\* processed each of the seven algorithm collections holds one line per level
\* whose output has at least 2 points and none for the others, in the order
\* of the levels, and 'full' holds exactly one MultiPoint of the input.
C5_OneLinePerLevel ==
    (pc = "write") =>
        /\ Len(outputs) = Len(subsample_levels)
        /\ \A k \in 1..Len(outputs) :
              LET lvl == subsample_levels[k]
              IN  /\ outputs[k].uniform = uniform_subsampling(coords, lvl).value
                  /\ outputs[k].sliding_window
                         = sliding_window_subsampling(coords, lvl).value
                  /\ outputs[k].grid = grid_subsampling(coords, lvl).value
                  /\ Len(outputs[k].random) = Min(lvl, Len(coords))
        /\ \A i \in 1..7 :
              /\ gdfs[SevenAlgorithms[i]] = LinesOf(outputs, SevenAlgorithms[i])
              /\ Len(gdfs[SevenAlgorithms[i]]) <= Len(subsample_levels)
        /\ gdfs["full"] = <<MultiPoint(csv_filepaths[1])>>
        /\ coords = csv_filepaths[1]

\* two different levels are processed; one algorithm has a line for both, and
\* another has a line for one and a skipped output for the other
C5_Witness ==
    /\ pc = "write"
    /\ Len(subsample_levels) = 2
    /\ subsample_levels[1] # subsample_levels[2]
    /\ \E m \in MethodSet : Len(gdfs[m]) = 2
    /\ \E m \in MethodSet \ {"full"} : Len(gdfs[m]) = 1

\* C9: a run over n files that returns, returns 8 records per file, in the
\* order rdp, uniform, random, sliding_window, grid, lowess, vw, full, the
\* files in the order supplied; each record is appended once its layer is
\* written, and carries the size the destination had after that write.
C9_OneRecordPerWrittenLayer ==
    /\ pc = "done" =>
          /\ Len(profiling_results) = 8 * Len(csv_filepaths)
          /\ \A f \in 1..Len(csv_filepaths) : \A k \in 1..8 :
                profiling_results[8 * (f - 1) + k].method = EightMethods[k]
    /\ pc = "write" =>
          /\ Len(results) = methodIdx - 1
          /\ Len(profiling_results) = 8 * (fileIdx - 1)
          /\ \A k \in 1..Len(results) :
                /\ results[k].method = EightMethods[k]
                /\ layer_name(EightMethods[k]) \in DOMAIN gpkg
                /\ gpkg[layer_name(EightMethods[k])].geometry = gdfs[EightMethods[k]]
          /\ results # <<>> =>
                Last(results).file_size_mb = file_size_mb(getsize(gpkg))
    /\ (pc \in {"loop", "done"} /\ fileIdx > 1) =>
          /\ Len(profiling_results) = 8 * (fileIdx - 1)
          /\ SubSeq(profiling_results, 8 * (fileIdx - 2) + 1, 8 * (fileIdx - 1))
                = results

\* a run over two files has returned
C9_Witness ==
    /\ pc = "done"
    /\ Len(csv_filepaths) = 2
    /\ Len(profiling_results) = 16

\* C10: a layer is named after its method alone and a write replaces the
\* named layer only, so after a run over n >= 1 files the destination holds
\* exactly 8 layers, each holding only the geometries of the last file.
C10_LayersOfLastFileOnly ==
    (pc = "done" /\ Len(csv_filepaths) >= 1) =>
        /\ DOMAIN gpkg = {EightMethods[k] \o "_synthetic_layer" : k \in 1..8}
        /\ \A k \in 1..8 :
              gpkg[EightMethods[k] \o "_synthetic_layer"].geometry
                  = gdfs[EightMethods[k]]
        /\ gpkg["full_synthetic_layer"].geometry
              = <<MultiPoint(csv_filepaths[Len(csv_filepaths)])>>
        /\ coords = csv_filepaths[Len(csv_filepaths)]
        /\ \A k \in 1..7 :
              Len(gpkg[EightMethods[k] \o "_synthetic_layer"].geometry)
                  <= Len(subsample_levels)

\* a run over two different files has returned, and the first file's
\* geometries are in no layer
C10_Witness ==
    /\ pc = "done"
    /\ Len(csv_filepaths) = 2
    /\ csv_filepaths[1] # csv_filepaths[2]
    /\ gpkg["rdp_synthetic_layer"].geometry # <<>>
    /\ \A j \in 1..Len(gpkg["rdp_synthetic_layer"].geometry) :
          gpkg["rdp_synthetic_layer"].geometry[j].coordinates # csv_filepaths[1]
    /\ gpkg["full_synthetic_layer"].geometry # <<MultiPoint(csv_filepaths[1])>>

====
